---------------------------- MODULE Spec2Model ----------------------------
(***************************************************************************)
(* State-machine model of the English quiz backend: the express server of  *)
(* src/index.js (login, quiz generation, quiz fetch, submission, results)  *)
(* and the generation pipeline of src/unnamed/part_000                     *)
(* (generateQuizFromText: input checks, provider call, JSON extraction,    *)
(* quiz validation, error classification).                                 *)
(***************************************************************************)
EXTENDS Integers, Sequences, FiniteSets, TLC

VARIABLES
    env,          \* process.env: ADMIN_USERNAME, ADMIN_PASSWORD, OPENROUTER_API_KEY
    currentQuiz,  \* index.js:68   let currentQuiz = null
    quizResults,  \* index.js:69   let quizResults = []
    sessions,     \* express-session store: session id -> req.session.isAdmin
    inflight,     \* generation requests suspended at `await generateQuizFromText`
    resp,         \* the last HTTP response sent
    pipeIn,       \* input of a stand-alone run of generateQuizFromText
    pipeOut       \* its outcome (returned quiz or thrown error)

vars == <<env, currentQuiz, quizResults, sessions, inflight, resp, pipeIn, pipeOut>>

(***************************************************************************)
(* Bounds of the model.                                                    *)
(***************************************************************************)
MaxResults == 2      \* records kept in quizResults before submissions stop
MaxInflight == 1     \* generation requests awaiting the provider at once
MaxAnswers == 2      \* longest answers array a submission carries
MaxContentLen == 5   \* longest provider message content, in tokens
MaxTotal == 40       \* longest quiz of the scoring specification
MaxQuizLen == 2      \* longest candidate quiz of the pipeline specification

(***************************************************************************)
(* Program constants.                                                      *)
(***************************************************************************)
MinTextLen == 20     \* text.trim().length < 20
OptionCount == 4     \* q.options.length !== 4
MantissaBits == 53   \* IEEE-754 binary64 significand of a JS Number

\* undefined / a missing JSON member
UNDEF == "<undefined>"

\* !v for a string-valued JSON member: undefined and "" are falsy
Falsy(v) == v = UNDEF \/ v = ""

(***************************************************************************)
(* Quiz data as JSON.parse delivers it.  A question's options member is    *)
(* absent, a non-array (a string), or an array.                            *)
(***************************************************************************)
Arr(items) == [kind |-> "array", items |-> items]
NoOptions == [kind |-> "undefined", items |-> <<>>]
StrOptions == [kind |-> "string", items |-> <<>>]

Question(w, q, o, c) == [word |-> w, question |-> q, options |-> o, correct |-> c]

GoodQ == Question("example", "Q", Arr(<<"instance", "hard", "complex", "odd">>), "instance")
SecondQ == Question("arduous", "Q", Arr(<<"easy", "hard", "Instance", "odd">>), "hard")
DupQ == Question("example", "Q", Arr(<<"instance", "instance", "hard", "odd">>), "instance")

\* questions the model provider can emit: well-formed ones and one per validator rule
Questions ==
    { GoodQ, SecondQ, DupQ,
      Question(UNDEF, "Q", GoodQ.options, "instance"),
      Question("example", "", GoodQ.options, "instance"),
      Question("example", "Q", NoOptions, "instance"),
      Question("example", "Q", GoodQ.options, UNDEF),
      Question("example", "Q", StrOptions, "instance"),
      Question("example", "Q", Arr(<<"instance", "hard", "odd">>), "instance"),
      Question("example", "Q", Arr(<<"instance", "hard", "complex", "odd", "easy">>), "instance"),
      Question("example", "Q", GoodQ.options, "easy") }

\* the parsed object quizObj: its quiz member is absent, a non-array, or an array
QuizObj(kind, items) == [kind |-> kind, items |-> items]
NoQuizMember == QuizObj("undefined", <<>>)
StrQuizMember == QuizObj("string", <<>>)


(***************************************************************************)
(* Errors.  An Error's message is a fixed text with one interpolated       *)
(* argument; wrapped marks the prefix "Failed to generate quiz: " that the *)
(* catch block of generateQuizFromText puts before a message.              *)
(***************************************************************************)
Msg(text, arg) == [wrapped |-> FALSE, text |-> text, arg |-> arg]
Wrap(m) == [m EXCEPT !.wrapped = TRUE]
NoMsg == Msg("", "")

\* err.message.includes('API key') / includes('JSON'), by message text
IncludesAPIKey(m) == m.text \in {"API key is not configured. Please set OPENROUTER_API_KEY in your .env file."}
IncludesJSON(m) ==
    m.text \in {"No JSON object found in model response. Raw content: ",
                "Failed to parse extracted JSON: "}

\* an error object as the catch block inspects it: err.response.status (0: no
\* err.response), err.request, err.code, err.response.data.error?.message, err.message
Err(status, request, code, dataMsg, message) ==
    [status |-> status, request |-> request, code |-> code,
     dataMsg |-> dataMsg, message |-> message]
PlainError(m) == Err(0, FALSE, "", UNDEF, m)

Returned(quiz) == [ok |-> TRUE, quiz |-> quiz, err |-> PlainError(NoMsg)]
Thrown(e) == [ok |-> FALSE, quiz |-> <<>>, err |-> e]

(***************************************************************************)
(* The provider's message content, as a sequence of tokens:                *)
(*   FJ  the text ```json        F   the text ```                          *)
(*   LB  {      RB  }            X   a word of prose                       *)
(*   QM  the text of the member "quiz": ... of the emitted object          *)
(***************************************************************************)
Tokens == {"FJ", "F", "LB", "RB", "X", "QM"}

\* JSON.parse(text): strict; only a complete object text parses.  The member text QM
\* parses to the candidate object cand that the provider meant.
JSONParse(text, cand) ==
    IF text = <<"LB", "RB">> THEN [ok |-> TRUE, value |-> NoQuizMember]
    ELSE IF text = <<"LB", "QM", "RB">> THEN [ok |-> TRUE, value |-> cand]
    ELSE [ok |-> FALSE, value |-> NoQuizMember]

Min(S) == CHOOSE x \in S : \A y \in S : x <= y
Max(S) == CHOOSE x \in S : \A y \in S : y <= x

NoMatch == [found |-> FALSE, whole |-> <<>>, inner |-> <<>>]

\* content.match(/```json\s*([\s\S]*?)\s*```/): the first ```json and the nearest
\* ``` after it (the ``` that begins another ```json closes it too)
FenceMatch(content) ==
    LET closers(i) == {j \in (i+1)..Len(content) : content[j] \in {"F", "FJ"}}
        opens == {i \in 1..Len(content) : content[i] = "FJ" /\ closers(i) # {}}
    IN  IF opens = {} THEN NoMatch
        ELSE LET i == Min(opens)
                 j == Min(closers(i))
             IN  [found |-> TRUE,
                  whole |-> SubSeq(content, i, j - 1) \o <<"F">>,
                  inner |-> SubSeq(content, i + 1, j - 1)]

\* content.match(/{[\s\S]*}/): from the first { to the last }
BraceMatch(content) ==
    LET lbs == {i \in 1..Len(content) : content[i] = "LB"}
        rbs == {j \in 1..Len(content) : content[j] = "RB"}
    IN  IF lbs = {} \/ rbs = {} \/ Max(rbs) < Min(lbs) THEN NoMatch
        ELSE [found |-> TRUE,
              whole |-> SubSeq(content, Min(lbs), Max(rbs)),
              inner |-> SubSeq(content, Min(lbs), Max(rbs))]

\* part_000:107-111: the fence match, and the brace match only when no fence matched
JsonMatch(content) ==
    IF FenceMatch(content).found THEN FenceMatch(content) ELSE BraceMatch(content)

\* part_000:97-126: parse the content directly, else parse jsonMatch[0]
ExtractedText(m) == m.whole

Extract(content, cand) ==
    LET direct == JSONParse(content, cand)
        jsonMatch == JsonMatch(content)
    IN  IF direct.ok THEN [ok |-> TRUE, value |-> direct.value, err |-> NoMsg]
        ELSE IF ~jsonMatch.found
             THEN [ok |-> FALSE, value |-> NoQuizMember,
                   err |-> Msg("No JSON object found in model response. Raw content: ", "content")]
        ELSE LET second == JSONParse(ExtractedText(jsonMatch), cand)
             IN  IF second.ok THEN [ok |-> TRUE, value |-> second.value, err |-> NoMsg]
                 ELSE [ok |-> FALSE, value |-> NoQuizMember,
                       err |-> Msg("Failed to parse extracted JSON: ", "e2.message")]

(***************************************************************************)
(* part_000:130-161: the validator.                                        *)
(***************************************************************************)
\* q.options.includes(q.correct)
Includes(items, v) == \E k \in 1..Len(items) : items[k] = v

MissingFields(q) ==
    Falsy(q.word) \/ Falsy(q.question) \/ q.options.kind = "undefined" \/ Falsy(q.correct)

\* mutant: repeated option values rejected as well
OptionsInvalidOrRepeated(q) ==
    \/ q.options.kind # "array"
    \/ Len(q.options.items) # OptionCount
    \/ Cardinality({q.options.items[k] : k \in 1..Len(q.options.items)}) # Len(q.options.items)

OptionsInvalid(q) == q.options.kind # "array" \/ Len(q.options.items) # OptionCount

\* mutant: the membership check left out
CorrectNotChecked(q) == FALSE

CorrectNotInOptions(q) == ~Includes(q.options.items, q.correct)

\* the error the loop body throws for question i, or NoMsg
QuestionError(q, i) ==
    IF MissingFields(q) THEN Msg("Question %1 is missing required fields", ToString(i))
    ELSE IF OptionsInvalid(q) THEN Msg("Question %1 must have exactly 4 options", ToString(i))
    ELSE IF CorrectNotInOptions(q)
         THEN Msg("Question %1 correct answer not found in options", ToString(i))
    ELSE NoMsg

Validate(quizObj) ==
    IF quizObj.kind # "array"
    THEN Msg("Invalid quiz format returned by model - missing quiz array", "")
    ELSE IF Len(quizObj.items) = 0 THEN Msg("Quiz array is empty", "")
    ELSE LET bad == {i \in 1..Len(quizObj.items) : QuestionError(quizObj.items[i], i) # NoMsg}
         IN  IF bad = {} THEN NoMsg
             ELSE QuestionError(quizObj.items[Min(bad)], Min(bad))

(***************************************************************************)
(* The provider call (part_000:66-78).  axios.post resolves with a         *)
(* response, whose message content may be missing, or rejects with an      *)
(* error.  A rejection for an HTTP status carries err.response; a network  *)
(* failure and a timeout (timeout: 30000) carry err.request and no         *)
(* err.response, the timeout with err.code ECONNABORTED.                   *)
(***************************************************************************)
OkReply(hasContent, content, cand) ==
    [kind |-> "ok", hasContent |-> hasContent, content |-> content, cand |-> cand,
     err |-> PlainError(NoMsg)]
ErrReply(e) ==
    [kind |-> "error", hasContent |-> FALSE, content |-> <<>>, cand |-> NoQuizMember,
     err |-> e]

StatusError(status, dataMsg) ==
    Err(status, TRUE, "ERR_BAD_REQUEST", dataMsg,
        Msg("Request failed with status code %1", ToString(status)))
NetworkError == Err(0, TRUE, "ENOTFOUND", UNDEF, Msg("getaddrinfo ENOTFOUND openrouter.ai", ""))
TimeoutError == Err(0, TRUE, "ECONNABORTED", UNDEF, Msg("timeout of 30000ms exceeded", ""))

AxiosErrors ==
    { StatusError(401, UNDEF), StatusError(429, UNDEF), StatusError(400, UNDEF),
      StatusError(400, "Invalid model"), StatusError(500, UNDEF),
      NetworkError, TimeoutError }

(***************************************************************************)
(* generateQuizFromText (part_000:4-200).                                  *)
(***************************************************************************)
\* the request body's text: undefined, a number, or a string of a length
Text(kind, len, trimLen) == [kind |-> kind, len |-> len, trimLen |-> trimLen]
NoText == Text("undefined", 0, 0)
NumText == Text("number", 0, 0)
GoodText == Text("string", 25, 25)
Texts ==
    { NoText, NumText, GoodText, Text("string", 0, 0), Text("string", 25, 0),
      Text("string", 19, 19), Text("string", 25, 19), Text("string", 20, 20),
      Text("string", 22, 20) }

\* !text
TextFalsy(text) == text.kind = "undefined" \/ (text.kind = "string" /\ text.len = 0)

\* part_000:9
TextInvalid(text) == TextFalsy(text) \/ text.kind # "string" \/ text.trimLen < MinTextLen

\* part_000:189-198: the "known error types"
KnownError(e) ==
    IF e.code = "ECONNABORTED" THEN Msg("API request timed out. Please try again later.", "")
    ELSE IF IncludesAPIKey(e.message) THEN e.message
    ELSE IF IncludesJSON(e.message) THEN e.message
    ELSE Wrap(e.message)

\* part_000:166-199: the catch block; the message of the Error it throws
Catch(e) ==
    IF e.status # 0
    THEN IF e.status = 401
         THEN Msg("API authentication failed. Please check your OPENROUTER_API_KEY.", "")
         ELSE IF e.status = 429
         THEN Msg("API rate limit exceeded. Please try again later.", "")
         ELSE IF e.status = 400
         THEN Msg("API request invalid: %1", IF Falsy(e.dataMsg) THEN "Bad request" ELSE e.dataMsg)
         ELSE KnownError(e)
    ELSE IF e.request
    THEN Msg("No response received from AI service. Please check your internet connection.", "")
    ELSE KnownError(e)

\* part_000:53-164: the try block; returns the quiz or throws
TryBody(reply) ==
    IF reply.kind = "error" THEN Thrown(reply.err)
    ELSE IF ~reply.hasContent \/ reply.content = <<>>
    THEN Thrown(PlainError(Msg("No content received from AI model", "")))
    ELSE LET x == Extract(reply.content, reply.cand)
         IN  IF ~x.ok THEN Thrown(PlainError(x.err))
             ELSE IF Validate(x.value) # NoMsg THEN Thrown(PlainError(Validate(x.value)))
             ELSE Returned(x.value.items)

Resolved(quiz) == [ok |-> TRUE, quiz |-> quiz, error |-> NoMsg]
Rejected(m) == [ok |-> FALSE, quiz |-> <<>>, error |-> m]

\* part_000:8-21: the checks made before the provider is called; the message of
\* the Error thrown, or NoMsg
Precheck(text, apiKey) ==
    IF TextInvalid(text)
    THEN Msg("Input text must be a meaningful string (at least 20 characters)", "")
    ELSE IF Falsy(apiKey)
    THEN Msg("API key is not configured. Please set OPENROUTER_API_KEY in your .env file.", "")
    ELSE NoMsg

generateQuizFromText(text, apiKey, reply) ==
    IF Precheck(text, apiKey) # NoMsg THEN Rejected(Precheck(text, apiKey))
    ELSE LET t == TryBody(reply)
         IN  IF t.ok THEN Resolved(t.quiz) ELSE Rejected(Catch(t.err))

(***************************************************************************)
(* Math.round((score / currentQuiz.length) * 100) (index.js:263) in        *)
(* IEEE-754 binary64, round-to-nearest-even.  A positive double is a       *)
(* significand of MantissaBits bits, most significant first, and the       *)
(* number of those bits left of the binary point.                          *)
(***************************************************************************)
RECURSIVE Pow2(_)
Pow2(n) == IF n = 0 THEN 1 ELSE 2 * Pow2(n - 1)

RECURSIVE PowMod2(_, _)
\* 2^n mod d, by squaring
PowMod2(n, d) ==
    IF n = 0 THEN 1 % d
    ELSE LET h == PowMod2(n \div 2, d)
         IN  (h * h * (IF n % 2 = 1 THEN 2 ELSE 1)) % d

\* long division: n further quotient bits of rem/d (rem < d), and the remainder left
DivBits(rem, d, n) ==
    [bits |-> [i \in 1..n |-> IF 2 * ((rem * PowMod2(i - 1, d)) % d) >= d THEN 1 ELSE 0],
     rem |-> (rem * PowMod2(n, d)) % d]

\* bits + 1; carry when it overflows the width
Increment(bits) ==
    LET zeros == {i \in 1..Len(bits) : bits[i] = 0}
    IN  IF zeros = {} THEN [bits |-> [i \in 1..Len(bits) |-> 0], carry |-> 1]
        ELSE [bits |-> [i \in 1..Len(bits) |->
                           IF i < Max(zeros) THEN bits[i] ELSE IF i = Max(zeros) THEN 1 ELSE 0],
              carry |-> 0]

\* round-to-nearest-even of a significand with intBits bits left of the point
RoundNearestEven(bits, intBits, roundUp, tie) ==
    IF roundUp \/ (tie /\ bits[Len(bits)] = 1)
    THEN LET up == Increment(bits)
         IN  IF up.carry = 1
             THEN [bits |-> <<1>> \o SubSeq(up.bits, 1, Len(bits) - 1), intBits |-> intBits + 1]
             ELSE [bits |-> up.bits, intBits |-> intBits]
    ELSE [bits |-> bits, intBits |-> intBits]

RECURSIVE Halvings(_, _)
\* the least k with s * 2^k >= t, for 0 < s <= t
Halvings(s, t) == IF s >= t THEN 0 ELSE 1 + Halvings(2 * s, t)

\* score / total for 0 < score <= total
FloatDiv(s, t) ==
    LET k == Halvings(s, t)
        lead == s * Pow2(k)                \* t <= lead < 2t: the leading bit is 1
        q == DivBits(lead - t, t, MantissaBits - 1)
    IN  RoundNearestEven(<<1>> \o q.bits, 1 - k, 2 * q.rem > t, 2 * q.rem = t)

\* v in n bits, most significant first
ToBits(v, n) == [i \in 1..n |-> (v \div Pow2(n - i)) % 2]

RECURSIVE FromBits(_)
FromBits(bits) ==
    IF bits = <<>> THEN 0 ELSE 2 * FromBits(SubSeq(bits, 1, Len(bits) - 1)) + bits[Len(bits)]

RECURSIVE MulBytes(_, _, _, _)
\* the exact product bits[1..8*i] * c + carry, eight bits at a time (c < 128)
MulBytes(bits, c, i, carry) ==
    IF i = 0 THEN ToBits(carry, 8)
    ELSE LET v == FromBits(SubSeq(bits, 8 * i - 7, 8 * i)) * c + carry
         IN  MulBytes(bits, c, i - 1, v \div 256) \o ToBits(v % 256, 8)

\* x * c for a double x and an integer 0 < c < 128
FloatMul(x, c) ==
    LET pad == (8 - (Len(x.bits) % 8)) % 8
        wide == [i \in 1..pad |-> 0] \o x.bits
        p == MulBytes(wide, c, Len(wide) \div 8, 0)
        z == Min({i \in 1..Len(p) : p[i] = 1}) - 1      \* leading zeros
        kept == SubSeq(p, z + 1, z + MantissaBits)
        dropped == SubSeq(p, z + MantissaBits + 1, Len(p))
        guard == dropped # <<>> /\ dropped[1] = 1
        sticky == \E i \in 2..Len(dropped) : dropped[i] = 1
    IN  RoundNearestEven(kept, x.intBits + (Len(p) - Len(x.bits)) - z,
                         guard /\ sticky, guard /\ ~sticky)

\* Math.round(x) for a double x >= 0: the integer part, plus one when the fraction
\* is at least one half
MathRound(x) ==
    IF x.intBits < 0 THEN 0
    ELSE FromBits(SubSeq(x.bits, 1, x.intBits))
         + (IF x.intBits < Len(x.bits) THEN x.bits[x.intBits + 1] ELSE 0)

Percentage(score, total) ==
    IF score = 0 THEN 0 ELSE MathRound(FloatMul(FloatDiv(score, total), 100))

\* Percentage for every score of every quiz length up to MaxTotal, worked out once
PercentageTable ==
    SubSeq([t \in 1..MaxTotal |->
               SubSeq([k \in 1..(t + 1) |-> Percentage(k - 1, t)], 1, t + 1)], 1, MaxTotal)

(***************************************************************************)
(* The server (index.js).                                                  *)
(***************************************************************************)
SessionIds == {"s1", "s2"}

\* currentQuiz: null, or the array a generation stored
NullQuiz == [isNull |-> TRUE, items |-> <<>>]
Loaded(quiz) == [isNull |-> FALSE, items |-> quiz]

\* a response: res.status(..).json(..); NoResp when the step sends none
Body(count, score, total, percentage, wrongAnswers) ==
    [count |-> count, score |-> score, total |-> total, percentage |-> percentage,
     wrongAnswers |-> wrongAnswers]
NoBody == Body(0, 0, 0, 0, <<>>)
Resp(route, session, status, error, body) ==
    [route |-> route, session |-> session, status |-> status, error |-> error, body |-> body]
NoResp == Resp("", "", 0, NoMsg, NoBody)

IdlePipeIn == [text |-> NoText, apiKey |-> UNDEF, reply |-> ErrReply(NetworkError)]
IdlePipeOut == [done |-> FALSE, result |-> Rejected(NoMsg)]

Env(username, password, apiKey) ==
    [ADMIN_USERNAME |-> username, ADMIN_PASSWORD |-> password, OPENROUTER_API_KEY |-> apiKey]
Envs ==
    { Env("admin", "secret", "sk-or-key"), Env("admin", "secret", UNDEF),
      Env("admin", UNDEF, "sk-or-key") }

Init ==
    /\ env \in Envs
    /\ currentQuiz = NullQuiz
    /\ quizResults = <<>>
    /\ sessions = [s \in SessionIds |-> FALSE]
    /\ inflight = <<>>
    /\ resp = NoResp
    /\ pipeIn = IdlePipeIn
    /\ pipeOut = IdlePipeOut

\* index.js:116-140  POST /api/admin/login
Login(s, username, password) ==
    /\ IF Falsy(env.ADMIN_USERNAME) \/ Falsy(env.ADMIN_PASSWORD)
       THEN /\ resp' = Resp("POST /api/admin/login", s, 500,
                            Msg("Server configuration error: Admin credentials not set", ""), NoBody)
            /\ UNCHANGED sessions
       ELSE IF username = env.ADMIN_USERNAME /\ password = env.ADMIN_PASSWORD
       THEN /\ sessions' = [sessions EXCEPT ![s] = TRUE]
            /\ resp' = Resp("POST /api/admin/login", s, 200, NoMsg, NoBody)
       ELSE /\ resp' = Resp("POST /api/admin/login", s, 401, Msg("Invalid credentials", ""), NoBody)
            /\ UNCHANGED sessions
    /\ UNCHANGED <<env, currentQuiz, quizResults, inflight, pipeIn, pipeOut>>

\* mutant: the session flag not looked at
requireAdminSkipped(s) == TRUE

\* index.js:143-155: whether next() is called
requireAdmin(s) == sessions[s]

Forbidden(route, s) ==
    Resp(route, s, 403, Msg("Forbidden - Admin access required", ""), NoBody)

\* index.js:158-172  POST /api/admin/quiz, up to the provider call: the request is
\* answered at once, or suspends at the await with the call in flight
AdminQuiz(s, text) ==
    /\ IF ~requireAdmin(s)
       THEN resp' = Forbidden("POST /api/admin/quiz", s) /\ UNCHANGED inflight
       ELSE IF TextFalsy(text)
       THEN /\ resp' = Resp("POST /api/admin/quiz", s, 400, Msg("Text is required", ""), NoBody)
            /\ UNCHANGED inflight
       ELSE IF text.kind # "string"
       THEN /\ resp' = Resp("POST /api/admin/quiz", s, 500,
                            Msg("text.substring is not a function", ""), NoBody)
            /\ UNCHANGED inflight
       ELSE IF Precheck(text, env.OPENROUTER_API_KEY) # NoMsg
       THEN /\ resp' = Resp("POST /api/admin/quiz", s, 500,
                            Precheck(text, env.OPENROUTER_API_KEY), NoBody)
            /\ UNCHANGED inflight
       ELSE /\ Len(inflight) < MaxInflight
            /\ inflight' = Append(inflight, [session |-> s, text |-> text])
            /\ resp' = NoResp
    /\ UNCHANGED <<env, currentQuiz, quizResults, sessions, pipeIn, pipeOut>>

Remove(seq, k) == SubSeq(seq, 1, k - 1) \o SubSeq(seq, k + 1, Len(seq))

\* mutant: the results list kept when the new quiz is stored
AdminQuizResumeKeepsResults(k, reply) ==
    /\ k \in 1..Len(inflight)
    /\ LET req == inflight[k]
           r == generateQuizFromText(req.text, env.OPENROUTER_API_KEY, reply)
       IN  IF r.ok
           THEN /\ currentQuiz' = Loaded(r.quiz)
                /\ UNCHANGED quizResults
                /\ resp' = Resp("POST /api/admin/quiz", req.session, 200, NoMsg,
                                Body(Len(r.quiz), 0, 0, 0, <<>>))
           ELSE /\ resp' = Resp("POST /api/admin/quiz", req.session, 500, r.error, NoBody)
                /\ UNCHANGED <<currentQuiz, quizResults>>
    /\ inflight' = Remove(inflight, k)
    /\ UNCHANGED <<env, sessions, pipeIn, pipeOut>>

\* mutant: the results list cleared before the pipeline's outcome is known
AdminQuizResumeClearsFirst(k, reply) ==
    /\ k \in 1..Len(inflight)
    /\ LET req == inflight[k]
           r == generateQuizFromText(req.text, env.OPENROUTER_API_KEY, reply)
       IN  IF r.ok
           THEN /\ currentQuiz' = Loaded(r.quiz)
                /\ quizResults' = <<>>
                /\ resp' = Resp("POST /api/admin/quiz", req.session, 200, NoMsg,
                                Body(Len(r.quiz), 0, 0, 0, <<>>))
           ELSE /\ resp' = Resp("POST /api/admin/quiz", req.session, 500, r.error, NoBody)
                /\ quizResults' = <<>>
                /\ UNCHANGED currentQuiz
    /\ inflight' = Remove(inflight, k)
    /\ UNCHANGED <<env, sessions, pipeIn, pipeOut>>

\* index.js:172-189: the provider's reply to call k arrives and the handler goes on
AdminQuizResume(k, reply) ==
    /\ k \in 1..Len(inflight)
    /\ LET req == inflight[k]
           r == generateQuizFromText(req.text, env.OPENROUTER_API_KEY, reply)
       IN  IF r.ok
           THEN /\ currentQuiz' = Loaded(r.quiz)
                /\ quizResults' = <<>>
                /\ resp' = Resp("POST /api/admin/quiz", req.session, 200, NoMsg,
                                Body(Len(r.quiz), 0, 0, 0, <<>>))
           ELSE /\ resp' = Resp("POST /api/admin/quiz", req.session, 500, r.error, NoBody)
                /\ UNCHANGED <<currentQuiz, quizResults>>
    /\ inflight' = Remove(inflight, k)
    /\ UNCHANGED <<env, sessions, pipeIn, pipeOut>>

\* index.js:193-202  GET /api/quiz
GetQuiz ==
    /\ resp' = Resp("GET /api/quiz", "", 200, NoMsg,
                    Body(IF currentQuiz.isNull THEN 0 ELSE Len(currentQuiz.items), 0, 0, 0, <<>>))
    /\ UNCHANGED <<env, currentQuiz, quizResults, sessions, inflight, pipeIn, pipeOut>>

\* index.js:291-298  GET /api/admin/results
GetResults(s) ==
    /\ IF ~requireAdmin(s)
       THEN resp' = Forbidden("GET /api/admin/results", s)
       ELSE resp' = Resp("GET /api/admin/results", s, 200, NoMsg,
                         Body(Len(quizResults), 0, 0, 0, <<>>))
    /\ UNCHANGED <<env, currentQuiz, quizResults, sessions, inflight, pipeIn, pipeOut>>

\* the answers member of a submission: absent, or an array of strings
NoAnswers == [present |-> FALSE, items |-> <<>>]
Answers(items) == [present |-> TRUE, items |-> items]

\* mutant: the comparison made without regard to letter case
Lower(str) == IF str = "Instance" THEN "instance" ELSE str
IsCorrectIgnoringCase(answer, q) == Lower(answer) = Lower(q.correct)

\* index.js:235  answers[i] === q.correct
IsCorrect(answer, q) == answer = q.correct

\* index.js:246  answers[i] || 'No answer'
UserAnswer(answer) == IF Falsy(answer) THEN "No answer" ELSE answer

\* index.js:252-260
DetailedResult(q, i, answer) ==
    [questionNumber |-> i, question |-> q.question, word |-> q.word,
     correctAnswer |-> q.correct, userAnswer |-> UserAnswer(answer),
     isCorrect |-> IsCorrect(answer, q), options |-> q.options]

\* index.js:230-261: the forEach over currentQuiz
Score(quiz, answers) == Cardinality({i \in 1..Len(quiz) : IsCorrect(answers[i], quiz[i])})

DetailedResults(quiz, answers) ==
    [i \in 1..Len(quiz) |-> DetailedResult(quiz[i], i, answers[i])]

RECURSIVE WrongAnswers(_, _, _)
\* question numbers pushed to wrongAnswers, from question i on
WrongAnswers(quiz, answers, i) ==
    IF i > Len(quiz) THEN <<>>
    ELSE (IF IsCorrect(answers[i], quiz[i]) THEN <<>> ELSE <<i>>)
         \o WrongAnswers(quiz, answers, i + 1)

\* index.js:265-273 (the date is left out)
ResultRecord(name, surname, quiz, answers) ==
    [name |-> name, surname |-> surname, score |-> Score(quiz, answers),
     total |-> Len(quiz), percentage |-> PercentageTable[Len(quiz)][Score(quiz, answers) + 1],
     detailedResults |-> DetailedResults(quiz, answers)]

\* mutant: only too few answers are turned away
SubmitAcceptsLonger(name, surname, answers) ==
    /\ IF Falsy(name) \/ Falsy(surname) \/ ~answers.present
       THEN /\ resp' = Resp("POST /api/quiz/submit", "", 400,
                            Msg("Name, surname, and answers required", ""), NoBody)
            /\ UNCHANGED quizResults
       ELSE IF currentQuiz.isNull
       THEN /\ resp' = Resp("POST /api/quiz/submit", "", 400, Msg("No quiz available", ""), NoBody)
            /\ UNCHANGED quizResults
       ELSE IF Len(answers.items) < Len(currentQuiz.items)
       THEN /\ resp' = Resp("POST /api/quiz/submit", "", 400,
                            Msg("Answer count does not match question count", ""), NoBody)
            /\ UNCHANGED quizResults
       ELSE LET result == ResultRecord(name, surname, currentQuiz.items, answers.items)
            IN  /\ Len(quizResults) < MaxResults
                /\ quizResults' = Append(quizResults, result)
                /\ resp' = Resp("POST /api/quiz/submit", "", 200, NoMsg,
                                Body(0, result.score, Len(currentQuiz.items), result.percentage,
                                     WrongAnswers(currentQuiz.items, answers.items, 1)))
    /\ UNCHANGED <<env, currentQuiz, sessions, inflight, pipeIn, pipeOut>>

\* mutant: the handler yields after its checks, and a pending generation delivering
\* the quiz <<GoodQ, SecondQ>> completes before the scoring
SubmitYieldsToGeneration(name, surname, answers) ==
    LET other == <<GoodQ, SecondQ>>
        padded == [i \in 1..Len(other) |->
                      IF i <= Len(answers.items) THEN answers.items[i] ELSE UNDEF]
        raced == ResultRecord(name, surname, other, padded)
        result == ResultRecord(name, surname, currentQuiz.items, answers.items)
    IN  IF Falsy(name) \/ Falsy(surname) \/ ~answers.present
        THEN /\ resp' = Resp("POST /api/quiz/submit", "", 400,
                             Msg("Name, surname, and answers required", ""), NoBody)
             /\ UNCHANGED <<env, currentQuiz, quizResults, sessions, inflight, pipeIn, pipeOut>>
        ELSE IF currentQuiz.isNull
        THEN /\ resp' = Resp("POST /api/quiz/submit", "", 400, Msg("No quiz available", ""), NoBody)
             /\ UNCHANGED <<env, currentQuiz, quizResults, sessions, inflight, pipeIn, pipeOut>>
        ELSE IF Len(answers.items) # Len(currentQuiz.items)
        THEN /\ resp' = Resp("POST /api/quiz/submit", "", 400,
                             Msg("Answer count does not match question count", ""), NoBody)
             /\ UNCHANGED <<env, currentQuiz, quizResults, sessions, inflight, pipeIn, pipeOut>>
        ELSE IF inflight # <<>>
        THEN /\ currentQuiz' = Loaded(other)
             /\ inflight' = Tail(inflight)
             /\ quizResults' = <<raced>>
             /\ resp' = Resp("POST /api/quiz/submit", "", 200, NoMsg,
                             Body(0, raced.score, Len(other), raced.percentage,
                                  WrongAnswers(other, padded, 1)))
             /\ UNCHANGED <<env, sessions, pipeIn, pipeOut>>
        ELSE /\ Len(quizResults) < MaxResults
             /\ quizResults' = Append(quizResults, result)
             /\ resp' = Resp("POST /api/quiz/submit", "", 200, NoMsg,
                             Body(0, result.score, Len(currentQuiz.items), result.percentage,
                                  WrongAnswers(currentQuiz.items, answers.items, 1)))
             /\ UNCHANGED <<env, currentQuiz, sessions, inflight, pipeIn, pipeOut>>

\* index.js:205-288  POST /api/quiz/submit
Submit(name, surname, answers) ==
    /\ IF Falsy(name) \/ Falsy(surname) \/ ~answers.present
       THEN /\ resp' = Resp("POST /api/quiz/submit", "", 400,
                            Msg("Name, surname, and answers required", ""), NoBody)
            /\ UNCHANGED quizResults
       ELSE IF currentQuiz.isNull
       THEN /\ resp' = Resp("POST /api/quiz/submit", "", 400, Msg("No quiz available", ""), NoBody)
            /\ UNCHANGED quizResults
       ELSE IF Len(answers.items) # Len(currentQuiz.items)
       THEN /\ resp' = Resp("POST /api/quiz/submit", "", 400,
                            Msg("Answer count does not match question count", ""), NoBody)
            /\ UNCHANGED quizResults
       ELSE LET result == ResultRecord(name, surname, currentQuiz.items, answers.items)
            IN  /\ Len(quizResults) < MaxResults
                /\ quizResults' = Append(quizResults, result)
                /\ resp' = Resp("POST /api/quiz/submit", "", 200, NoMsg,
                                Body(0, result.score, Len(currentQuiz.items), result.percentage,
                                     WrongAnswers(currentQuiz.items, answers.items, 1)))
    /\ UNCHANGED <<env, currentQuiz, sessions, inflight, pipeIn, pipeOut>>

(***************************************************************************)
(* Requests of the server specification.                                   *)
(***************************************************************************)
\* the sequences over S of length at most n
SeqsUpTo(S, n) == UNION {[1..k -> S] : k \in 0..n}

Credentials ==
    {<<"admin", "secret">>, <<"admin", "wrong">>, <<"guest", "secret">>, <<UNDEF, UNDEF>>}
ServerTexts == {NoText, NumText, GoodText, Text("string", 25, 19)}
AnswerStrs == {"instance", "Instance"}
Submissions ==
    {<<"Ann", "Lee">>}
        \X ({NoAnswers, Answers(<<"">>)} \cup {Answers(a) : a \in SeqsUpTo(AnswerStrs, MaxAnswers)})
    \cup {<<UNDEF, "Lee">>, <<"Ann", "">>} \X {Answers(<<"instance">>)}

CaseQ == Question("arduous", "Q", Arr(<<"easy", "hard", "Instance", "odd">>), "Instance")
ServerCands ==
    { QuizObj("array", <<GoodQ>>), QuizObj("array", <<GoodQ, CaseQ>>),
      QuizObj("array", <<DupQ>>), QuizObj("array", <<>>),
      QuizObj("array", <<GoodQ, Question("example", "Q", GoodQ.options, "easy")>>) }
ServerContents ==
    { <<"LB", "QM", "RB">>, <<"X", "LB", "QM", "RB", "X">>,
      <<"FJ", "LB", "QM", "RB", "F">>, <<"X">> }
ServerReplies ==
    {OkReply(TRUE, <<"LB", "QM", "RB">>, q) : q \in ServerCands}
    \cup {OkReply(TRUE, c, QuizObj("array", <<GoodQ>>)) : c \in ServerContents}
    \cup {OkReply(FALSE, <<>>, NoQuizMember)}
    \cup {ErrReply(e) : e \in {StatusError(401, UNDEF), TimeoutError}}

Next ==
    \/ \E s \in SessionIds, c \in Credentials : Login(s, c[1], c[2])
    \/ \E s \in SessionIds, text \in ServerTexts : AdminQuiz(s, text)
    \/ \E k \in 1..MaxInflight, reply \in ServerReplies : AdminQuizResume(k, reply)
    \/ GetQuiz
    \/ \E s \in SessionIds : GetResults(s)
    \/ \E sub \in Submissions : Submit(sub[1][1], sub[1][2], sub[2])

Spec == Init /\ [][Next]_vars

(***************************************************************************)
(* The pipeline specification: generateQuizFromText run once on an input   *)
(* drawn from every message content of up to MaxContentLen tokens, every   *)
(* candidate quiz of up to MaxQuizLen questions, every request text and    *)
(* every outcome of the provider call.                                     *)
(***************************************************************************)
PipeIn(text, apiKey, reply) == [text |-> text, apiKey |-> apiKey, reply |-> reply]

\* every content, carrying a valid one-question quiz or an empty one
ContentInputs(in) ==
    \E c \in SeqsUpTo(Tokens, MaxContentLen), q \in {<<GoodQ>>, <<>>} :
        in = PipeIn(GoodText, "sk-or-key", OkReply(TRUE, c, QuizObj("array", q)))

\* every candidate quiz, bare, in prose and fenced
CandidateInputs(in) ==
    \/ \E c \in ServerContents, q \in SeqsUpTo(Questions, MaxQuizLen) :
          in = PipeIn(GoodText, "sk-or-key", OkReply(TRUE, c, QuizObj("array", q)))
    \/ \E c \in ServerContents, q \in {NoQuizMember, StrQuizMember} :
          in = PipeIn(GoodText, "sk-or-key", OkReply(TRUE, c, q))

\* every request text and credential
TextInputs(in) ==
    \E t \in Texts, k \in {UNDEF, "", "sk-or-key"} :
        in = PipeIn(t, k, OkReply(TRUE, <<"LB", "QM", "RB">>, QuizObj("array", <<GoodQ>>)))

\* every failure of the provider call, and a response without content
ProviderInputs(in) ==
    \E r \in {ErrReply(e) : e \in AxiosErrors} \cup {OkReply(FALSE, <<>>, NoQuizMember)} :
        in = PipeIn(GoodText, "sk-or-key", r)

InitPipeline ==
    /\ env = Env("admin", "secret", "sk-or-key")
    /\ currentQuiz = NullQuiz
    /\ quizResults = <<>>
    /\ sessions = [s \in SessionIds |-> FALSE]
    /\ inflight = <<>>
    /\ resp = NoResp
    /\ \/ ContentInputs(pipeIn)
       \/ CandidateInputs(pipeIn)
       \/ TextInputs(pipeIn)
       \/ ProviderInputs(pipeIn)
    /\ pipeOut = IdlePipeOut

RunPipeline ==
    /\ ~pipeOut.done
    /\ pipeOut' = [done |-> TRUE,
                   result |-> generateQuizFromText(pipeIn.text, pipeIn.apiKey, pipeIn.reply)]
    /\ UNCHANGED <<env, currentQuiz, quizResults, sessions, inflight, resp, pipeIn>>

NextPipeline == RunPipeline

SpecPipeline == InitPipeline /\ [][NextPipeline]_vars

(***************************************************************************)
(* The scoring specification: a quiz of 1..MaxTotal questions has been     *)
(* generated, and one submission with any number of right answers is made. *)
(***************************************************************************)
UniformQuiz(n) == [i \in 1..n |-> GoodQ]
\* the first k answers right, the others wrong
AnswersWith(k, n) == [i \in 1..n |-> IF i <= k THEN GoodQ.correct ELSE "Instance"]

InitScore ==
    /\ env = Env("admin", "secret", "sk-or-key")
    /\ \E n \in 1..MaxTotal :
          /\ currentQuiz = Loaded(UniformQuiz(n))
          /\ resp = Resp("POST /api/admin/quiz", "s1", 200, NoMsg, Body(n, 0, 0, 0, <<>>))
    /\ quizResults = <<>>
    /\ sessions = [s \in SessionIds |-> s = "s1"]
    /\ inflight = <<>>
    /\ pipeIn = IdlePipeIn
    /\ pipeOut = IdlePipeOut

SubmitOnce ==
    /\ quizResults = <<>>
    /\ \E k \in 0..Len(currentQuiz.items) :
          Submit("Ann", "Lee", Answers(AnswersWith(k, Len(currentQuiz.items))))

NextScore == SubmitOnce

SpecScore == InitScore /\ [][NextScore]_vars

(***************************************************************************)
(* Properties.                                                             *)
(***************************************************************************)
Last(seq) == seq[Len(seq)]
GenRoute == "POST /api/admin/quiz"
SubmitRoute == "POST /api/quiz/submit"
PrivilegedRoutes == {"POST /api/admin/quiz", "GET /api/admin/results"}

\* C1: whenever a generation request succeeds, the results list is empty right
\* afterwards and the current quiz is the quiz the pipeline just validated, whatever
\* both held before and whatever was submitted while the provider call was in flight.
C1_GenerationResets ==
    [][\A k \in 1..MaxInflight, reply \in ServerReplies :
         (/\ resp'.route = GenRoute /\ resp'.status = 200
          /\ AdminQuizResume(k, reply))
         => /\ quizResults' = <<>>
            /\ generateQuizFromText(inflight[k].text, env.OPENROUTER_API_KEY, reply).ok
            /\ currentQuiz' =
                 Loaded(generateQuizFromText(inflight[k].text, env.OPENROUTER_API_KEY, reply).quiz)]_vars

\* a generation has just succeeded: its response stands, the quiz is loaded and the
\* results are empty
C1_Witness ==
    /\ resp.route = GenRoute /\ resp.status = 200
    /\ ~currentQuiz.isNull /\ Len(currentQuiz.items) = 2
    /\ quizResults = <<>>

\* C2: a generation request answered with a failure (400 or 500) leaves the current
\* quiz and the results list as they were.
C2_FailureKeepsState ==
    [][(resp'.route = GenRoute /\ resp'.status \in {400, 500})
         => UNCHANGED <<currentQuiz, quizResults>>]_vars

\* a generation failed in the validator while a quiz with results was loaded
C2_Witness ==
    /\ resp.route = GenRoute /\ resp.status = 500
    /\ resp.error = Wrap(Msg("Question %1 correct answer not found in options", "2"))
    /\ ~currentQuiz.isNull
    /\ quizResults # <<>>

C4_LengthMismatchRejected ==
    [][\A sub \in Submissions :
         (/\ sub[2].present
          /\ ~currentQuiz.isNull
          /\ Len(sub[2].items) # Len(currentQuiz.items)
          /\ Submit(sub[1][1], sub[1][2], sub[2]))
         => /\ resp'.status = 400
            /\ resp'.body = NoBody
            /\ quizResults' = quizResults]_vars

\* a submission was turned away for its answer count while a quiz was loaded
C4_Witness ==
    /\ resp.route = SubmitRoute /\ resp.status = 400
    /\ resp.error = Msg("Answer count does not match question count", "")
    /\ ~currentQuiz.isNull

\* the number of indices at which the answer is exactly the question's correct value
ExactMatches(quiz, answers) ==
    Cardinality({i \in 1..Len(quiz) : answers[i] = quiz[i].correct})

\* C5: the score of an accepted submission, in the response and in the appended
\* record, is the number of indices i with answers[i] exactly equal to quiz[i].correct
\* (so an answer differing only in letter case scores as wrong), and each detailed
\* entry's flag says the same.
C5_ExactMatchScore ==
    [][\A sub \in Submissions :
         (resp'.status = 200 /\ Submit(sub[1][1], sub[1][2], sub[2]))
         => LET quiz == currentQuiz.items
                answers == sub[2].items
                rec == Last(quizResults')
            IN  /\ resp'.body.score = ExactMatches(quiz, answers)
                /\ rec.score = ExactMatches(quiz, answers)
                /\ \A i \in 1..Len(quiz) :
                      rec.detailedResults[i].isCorrect = (answers[i] = quiz[i].correct)]_vars

\* an accepted submission answered "Instance" where "instance" is correct, and scored 0
C5_Witness ==
    /\ resp.route = SubmitRoute /\ resp.status = 200
    /\ quizResults # <<>>
    /\ LET rec == Last(quizResults)
       IN  /\ rec.total = 1 /\ rec.score = 0
           /\ rec.detailedResults[1].userAnswer = "Instance"
           /\ rec.detailedResults[1].correctAnswer = "instance"

\* C6: the admin flag of a session is set only by a login whose username and
\* password equal the configured ones; a privileged request of a session without the
\* flag is answered 403, changes nothing and starts no generation; one of a session
\* with the flag (as right after its successful login) is not answered 403.
C6_AdminGate ==
    [][/\ \A s \in SessionIds :
            (sessions'[s] /\ ~sessions[s])
            => (/\ ~Falsy(env.ADMIN_USERNAME) /\ ~Falsy(env.ADMIN_PASSWORD)
                /\ Login(s, env.ADMIN_USERNAME, env.ADMIN_PASSWORD)
                /\ \A c \in Credentials :
                      Login(s, c[1], c[2])
                      => (c[1] = env.ADMIN_USERNAME /\ c[2] = env.ADMIN_PASSWORD))
       /\ (resp'.route \in PrivilegedRoutes /\ ~sessions[resp'.session])
            => (resp'.status = 403 /\ UNCHANGED <<currentQuiz, quizResults, inflight>>)
       /\ (Len(inflight') > Len(inflight)) => sessions[Last(inflight').session]
       /\ (resp'.route \in PrivilegedRoutes /\ sessions[resp'.session])
            => resp'.status # 403
       /\ (resp'.route = "POST /api/admin/login" /\ resp'.status = 200)
            => sessions'[resp'.session]]_vars

\* a session that logged in reads the results while the other session has no flag
C6_Witness ==
    /\ resp.route = "GET /api/admin/results" /\ resp.status = 200
    /\ sessions[resp.session]
    /\ \E s \in SessionIds : ~sessions[s]

(***************************************************************************)
(* Properties of the pipeline and of the scoring.                          *)
(***************************************************************************)
\* the pipeline run got as far as a response with content
ContentReceived ==
    /\ pipeOut.done
    /\ Precheck(pipeIn.text, pipeIn.apiKey) = NoMsg
    /\ pipeIn.reply.kind = "ok" /\ pipeIn.reply.hasContent /\ pipeIn.reply.content # <<>>

\* the extraction as the specification words it: the whole text, else the interior
\* of the fenced block, else the span from the first { to the last }, each a strict
\* parse, each tried whenever the one before failed
ThreeStageExtract(content, cand) ==
    LET whole == JSONParse(content, cand)
        fence == FenceMatch(content)
        fenced == JSONParse(fence.inner, cand)
        brace == BraceMatch(content)
        braced == JSONParse(brace.whole, cand)
    IN  IF whole.ok THEN whole
        ELSE IF fence.found /\ fenced.ok THEN fenced
        ELSE IF brace.found /\ braced.ok THEN braced
        ELSE [ok |-> FALSE, value |-> NoQuizMember]

\* C7: the extractor parses the whole text, then the interior of the json fence, then
\* the first-{-to-last-} span, the first success winning; an extraction failure is
\* reported only if all three fail.
C7_ThreeStageExtraction ==
    ContentReceived =>
        LET claimed == ThreeStageExtract(pipeIn.reply.content, pipeIn.reply.cand)
        IN  /\ claimed.ok => ~IncludesJSON(pipeOut.result.error)
            /\ ~claimed.ok => IncludesJSON(pipeOut.result.error)
            /\ pipeOut.result.ok => pipeOut.result.quiz = claimed.value.items

\* the failure of the provider stage an input stands for, "" when none
FailureClass(in) ==
    IF TextInvalid(in.text) THEN ""
    ELSE IF Falsy(in.apiKey) THEN "MissingCredential"
    ELSE IF in.reply.kind = "ok"
         THEN IF ~in.reply.hasContent \/ in.reply.content = <<>> THEN "EmptyModelOutput" ELSE ""
    ELSE IF in.reply.err.status = 401 THEN "AuthRejected"
    ELSE IF in.reply.err.status = 429 THEN "RateLimited"
    ELSE IF in.reply.err.status = 400 THEN "BadRequest"
    ELSE IF in.reply.err.status # 0 THEN ""
    ELSE IF in.reply.err.code = "ECONNABORTED" THEN "Timeout"
    ELSE "NoResponse"

\* the message text each class of failure has of its own
ClassText(class) ==
    CASE class = "MissingCredential" ->
            "API key is not configured. Please set OPENROUTER_API_KEY in your .env file."
      [] class = "AuthRejected" -> "API authentication failed. Please check your OPENROUTER_API_KEY."
      [] class = "RateLimited" -> "API rate limit exceeded. Please try again later."
      [] class = "BadRequest" -> "API request invalid: %1"
      [] class = "NoResponse" ->
            "No response received from AI service. Please check your internet connection."
      [] class = "Timeout" -> "API request timed out. Please try again later."
      [] class = "EmptyModelOutput" -> "No content received from AI model"

\* C8: a provider call that times out is reported with the Timeout message, not the
\* NoResponse one; each of missing credential, authentication rejection, rate
\* limiting, malformed request, no network response, timeout and empty model output
\* is reported with its own message.
C8_DistinctFailures ==
    (pipeOut.done /\ FailureClass(pipeIn) # "")
        => pipeOut.result.error.text = ClassText(FailureClass(pipeIn))

\* C9: every appended record has 0 <= score <= total, total non-zero, and an integer
\* percentage in 0..100 equal to score / total * 100 rounded half up.
C9_PercentageRounded ==
    \A i \in 1..Len(quizResults) :
        LET r == quizResults[i]
        IN  /\ r.total > 0 /\ 0 <= r.score /\ r.score <= r.total
            /\ 0 <= r.percentage /\ r.percentage <= 100
            /\ r.percentage = (200 * r.score + r.total) \div (2 * r.total)

Distinct(items) == Cardinality({items[k] : k \in 1..Len(items)}) = Len(items)

\* C10 as worded: every question of an accepted quiz has 4 pairwise distinct options.
C10_DistinctOptions ==
    (pipeOut.done /\ pipeOut.result.ok) =>
        \A i \in 1..Len(pipeOut.result.quiz) :
            /\ Len(pipeOut.result.quiz[i].options.items) = 4
            /\ Distinct(pipeOut.result.quiz[i].options.items)

\* the validator's rules, spelled out
RulesHold(obj) ==
    /\ obj.kind = "array"
    /\ Len(obj.items) > 0
    /\ \A i \in 1..Len(obj.items) :
          LET q == obj.items[i]
          IN  /\ q.word \notin {UNDEF, ""} /\ q.question \notin {UNDEF, ""}
              /\ q.correct \notin {UNDEF, ""}
              /\ q.options.kind = "array"
              /\ Len(q.options.items) = 4
              /\ \E k \in 1..4 : q.options.items[k] = q.correct

\* C10 amended: a parsed candidate is accepted, unchanged, exactly when its quiz list
\* is a non-empty array whose every question has its four fields non-empty, an
\* options array of exactly 4 entries and a correct value among them; repeated
\* option values are no ground for rejection.
C10_ValidatorRules ==
    (ContentReceived /\ Extract(pipeIn.reply.content, pipeIn.reply.cand).ok) =>
        LET obj == Extract(pipeIn.reply.content, pipeIn.reply.cand).value
        IN  /\ pipeOut.result.ok <=> RulesHold(obj)
            /\ pipeOut.result.ok => pipeOut.result.quiz = obj.items

\* a quiz with a question that repeats an option value was accepted
C10_Witness ==
    /\ pipeOut.done /\ pipeOut.result.ok
    /\ \E i \in 1..Len(pipeOut.result.quiz) :
          ~Distinct(pipeOut.result.quiz[i].options.items)

\* the record's total and detailed results are those of scoring against quiz
BuiltFrom(rec, quiz) ==
    /\ rec.total = Len(quiz)
    /\ DOMAIN rec.detailedResults = 1..Len(quiz)
    /\ \A i \in 1..Len(quiz) :
          /\ rec.detailedResults[i].questionNumber = i
          /\ rec.detailedResults[i].word = quiz[i].word
          /\ rec.detailedResults[i].question = quiz[i].question
          /\ rec.detailedResults[i].correctAnswer = quiz[i].correct
          /\ rec.detailedResults[i].options = quiz[i].options

\* C11 as worded, at the submissions it names: a submission accepted while a
\* generation is pending has the current quiz replaced between its length check and
\* its scoring, and is scored against a quiz other than the one its answer count was
\* checked against.
C11_ReplacedMidSubmission ==
    [][\A sub \in Submissions :
         (/\ resp'.status = 200
          /\ inflight # <<>>
          /\ Submit(sub[1][1], sub[1][2], sub[2]))
         => \/ currentQuiz' # currentQuiz
            \/ ~BuiltFrom(Last(quizResults'), currentQuiz.items)]_vars

\* C11 amended: the handling of a submission is one uninterrupted step. The quiz the
\* answer count is checked against is the quiz the submission is scored against and
\* its record's total and detailed results are built from; no generation completes
\* and the current quiz is not replaced within the step, whether or not a generation
\* is pending.
C11_SubmissionAtomic ==
    [][\A sub \in Submissions :
         (resp'.status = 200 /\ Submit(sub[1][1], sub[1][2], sub[2]))
         => /\ Len(sub[2].items) = Len(currentQuiz.items)
            /\ currentQuiz' = currentQuiz
            /\ inflight' = inflight
            /\ quizResults' = Append(quizResults, Last(quizResults'))
            /\ BuiltFrom(Last(quizResults'), currentQuiz.items)
            /\ resp'.body.total = Len(currentQuiz.items)]_vars

\* a submission was accepted and recorded while a generation was pending
C11_Witness ==
    /\ resp.route = SubmitRoute /\ resp.status = 200
    /\ inflight # <<>>
    /\ ~currentQuiz.isNull
    /\ quizResults # <<>>
    /\ BuiltFrom(Last(quizResults), currentQuiz.items)

=============================================================================
